---- MODULE Spec2Model ----
(***************************************************************************)
(* Model of app.py: a Streamlit news bot.  A chat handler and a daily      *)
(* scheduled job both run fetch_google_news -> summarize_news ->           *)
(* save_to_notion.  Korean string literals of the source are written here  *)
(* in ASCII transliteration (the module text is ASCII only); the comment   *)
(* next to each one names the source line of the literal.                  *)
(*                                                                         *)
(* Texts whose characters do not matter (page bodies, exception messages)  *)
(* are modelled by their length; texts that are compared or assembled      *)
(* (prompts, titles, links, responses) are strings.                        *)
(***************************************************************************)
EXTENDS Naturals, Integers, Sequences, FiniteSets, TLC

VARIABLES
    fetch,          \* the frame of one fetch_google_news call run step by step
    clock,          \* wall clock: [day, past9]
    session_state,  \* st.session_state of every session that has loaded the script
    chat,           \* per session: the position of the script run and its locals
    threads,        \* the scheduler threads started so far (start_scheduler frames)
    jobs,           \* schedule's process-wide job list: next run (a day's 09:00) per job
    notion,         \* the pages created in the Notion database, in creation order
    turns           \* number of chat inputs submitted so far (bounds the model)

vars == <<fetch, clock, session_state, chat, threads, jobs, notion, turns>>

(***************************************************************************)
(* Program constants.                                                      *)
(***************************************************************************)
MaxItems == 2          \* feed.entries[:2]
MaxContentLen == 3000  \* content[:3000]
MinContentLen == 50    \* len(content) < 50
RestrictedLen == 16    \* length of the literal returned on a non-200 status
NoContentLen == 16     \* length of the literal returned on too-short content
ErrPrefixLen == 8      \* length of the literal prefix of the f-string of line 71

(***************************************************************************)
(* Bounds of the model.                                                    *)
(***************************************************************************)
MaxFeed == 3      \* longest feed the feed source returns
Over == 1         \* how far a page or an exception message exceeds a limit
MaxSessions == 2  \* user sessions per process
MaxTurns == 1     \* chat inputs submitted per process
MaxDays == 1      \* last calendar day the clock reaches (days 0..MaxDays)
MaxPages == 2     \* Notion pages kept in the model

Min(a, b) == IF a <= b THEN a ELSE b

(***************************************************************************)
(* The outside world.                                                      *)
(***************************************************************************)
Fields == {"link", "title", "published"}

\* A feed entry is its position in the feed and the fields the feed gave it:
\* feedparser raises AttributeError when a missing field is read.
Entries == [idx : 1..MaxFeed, has : {Fields} \cup {Fields \ {f} : f \in Fields}]

RssLink(e) == "https://news.google.com/rss/articles/" \o ToString(e.idx)
RealLink(e) == "https://press.example/" \o ToString(e.idx)
Title(e) == "title" \o ToString(e.idx)

FeedsOfLen(n) == {f \in [1..n -> Entries] : \A i \in 1..n : f[i].idx = i}
Feeds == UNION {FeedsOfLen(n) : n \in 0..MaxFeed}

\* requests.head(rss_link, allow_redirects=True, timeout=5): raises, or answers
\* with the final url (the same url when nothing redirects).
HeadOutcomes == {"raise", "same", "redirect"}

PageLens == {0, MinContentLen - 1, MinContentLen, MaxContentLen, MaxContentLen + Over}
ExcLens == {0, MaxContentLen - ErrPrefixLen, MaxContentLen - ErrPrefixLen + Over}

\* requests.get(url, headers, timeout=5) followed by the html parse: an exception
\* with a message of some length, or a response with a status and the joined
\* text of its <p> elements.
GetOutcomes ==
    [type : {"raise"}, len : ExcLens]
    \cup [type : {"resp"}, status : {403}, len : {0}]
    \cup [type : {"resp"}, status : {200}, len : PageLens]

(***************************************************************************)
(* get_real_url and crawl_article.                                         *)
(***************************************************************************)
get_real_url(rss_link, real, head) ==
    IF head = "raise" THEN rss_link
    ELSE IF head = "redirect" THEN real
    ELSE rss_link

crawl_article(get) ==
    IF get.type = "raise" THEN [kind |-> "error", len |-> ErrPrefixLen + get.len]
    ELSE IF get.status # 200 THEN [kind |-> "restricted", len |-> RestrictedLen]
    ELSE IF get.len < MinContentLen THEN [kind |-> "nocontent", len |-> NoContentLen]
    ELSE [kind |-> "text", len |-> Min(get.len, MaxContentLen)]

(***************************************************************************)
(* fetch_google_news, one statement at a time.  A frame holds the locals   *)
(* of the call and `log`, the network requests it has sent so far.         *)
(***************************************************************************)
NoContent == [kind |-> "none", len |-> 0]

IdleFrame ==
    [pc |-> "idle", feed |-> <<>>, i |-> 0, real_url |-> "", content |-> NoContent,
     news_items |-> <<>>, log |-> <<>>]

\* lines 75-79: the feed request, then news_items = []
FetchCall(feed) ==
    [pc |-> "loop", feed |-> feed, i |-> 0, real_url |-> "", content |-> NoContent,
     news_items |-> <<>>, log |-> <<<<"feed", 0>>>>]

\* Fault: the loop runs over every entry of the feed.
TakeAll(feed) == feed

Take(feed) == SubSeq(feed, 1, Min(Len(feed), MaxItems))

\* line 81: the next entry of feed.entries[:2], or the end of the loop
LoopHead(f) ==
    IF f.i < Len(Take(f.feed))
    THEN [f EXCEPT !.pc = "resolve", !.i = f.i + 1]
    ELSE [f EXCEPT !.pc = "return"]

\* line 82: entry.link, then get_real_url
Resolve(f, head) ==
    LET e == f.feed[f.i] IN
    IF "link" \notin e.has
    THEN [f EXCEPT !.pc = "raised"]
    ELSE [f EXCEPT !.pc = "crawl",
                   !.real_url = get_real_url(RssLink(e), RealLink(e), head),
                   !.log = Append(f.log, <<"head", f.i>>)]

\* line 83
Crawl(f, get) ==
    [f EXCEPT !.pc = "append",
              !.content = crawl_article(get),
              !.log = Append(f.log, <<"get", f.i>>)]

\* lines 85-90: entry.title and entry.published are read while the dict is built
AppendItem(f) ==
    LET e == f.feed[f.i] IN
    IF "title" \notin e.has \/ "published" \notin e.has
    THEN [f EXCEPT !.pc = "raised"]
    ELSE [f EXCEPT !.pc = "loop",
                   !.news_items = Append(f.news_items,
                       [title |-> Title(e), link |-> f.real_url, content |-> f.content])]

\* What the web answers to the requests made for one feed entry.
Answers == [head : HeadOutcomes, get : GetOutcomes]

\* The same statements run to the end of the call; web[i] answers entry i.
RECURSIVE RunFetch(_, _)
RunFetch(f, web) ==
    IF f.pc \in {"return", "raised"} THEN f
    ELSE IF f.pc = "loop" THEN RunFetch(LoopHead(f), web)
    ELSE IF f.pc = "resolve" THEN RunFetch(Resolve(f, web[f.i].head), web)
    ELSE IF f.pc = "crawl" THEN RunFetch(Crawl(f, web[f.i].get), web)
    ELSE RunFetch(AppendItem(f), web)

fetch_google_news(feed, web) == RunFetch(FetchCall(feed), web)

(***************************************************************************)
(* The initial state: the process has started and no browser has loaded    *)
(* the script yet.                                                         *)
(***************************************************************************)
Sessions == 1..MaxSessions

IdleChat ==
    [pc |-> "idle", prompt |-> "", items |-> <<>>, summary |-> "",
     full_response |-> "", log |-> <<>>, exception |-> ""]

\* The script run ended by an uncaught exception, which Streamlit shows on the
\* page in place of the rest of the run's output.
Uncaught(name) == [IdleChat EXCEPT !.exception = name]

NoSession == [keys |-> {}, messages |-> <<>>]

Init ==
    /\ fetch = IdleFrame
    /\ clock = [day |-> 0, past9 |-> FALSE]
    /\ session_state = [s \in Sessions |-> NoSession]
    /\ chat = [s \in Sessions |-> IdleChat]
    /\ threads = <<>>
    /\ jobs = <<>>
    /\ notion = <<>>
    /\ turns = 0

(***************************************************************************)
(* SpecFetch: one call of fetch_google_news on any feed and any answers of *)
(* the web, statement by statement.                                        *)
(***************************************************************************)
rest == <<clock, session_state, chat, threads, jobs, notion, turns>>

FCall ==
    /\ fetch.pc = "idle"
    /\ \E feed \in Feeds : fetch' = FetchCall(feed)
    /\ UNCHANGED rest

FLoop ==
    /\ fetch.pc = "loop"
    /\ fetch' = LoopHead(fetch)
    /\ UNCHANGED rest

FResolve ==
    /\ fetch.pc = "resolve"
    /\ \E head \in HeadOutcomes : fetch' = Resolve(fetch, head)
    /\ UNCHANGED rest

FCrawl ==
    /\ fetch.pc = "crawl"
    /\ \E get \in GetOutcomes : fetch' = Crawl(fetch, get)
    /\ UNCHANGED rest

FAppend ==
    /\ fetch.pc = "append"
    /\ fetch' = AppendItem(fetch)
    /\ UNCHANGED rest

NextFetch == FCall \/ FLoop \/ FResolve \/ FCrawl \/ FAppend

SpecFetch == Init /\ [][NextFetch]_vars

(***************************************************************************)
(* The pipeline stages shared by the chat handler and the scheduled job.   *)
(* A frame (of a script run or of a scheduler thread) has pc, items,       *)
(* summary and log; log lists the network calls of the run in order:       *)
(* the requests of the fetch, then <<"llm", 1>> for a model call that      *)
(* returned, then <<"notion", ok>> for a pages.create call (ok = 1 when it *)
(* returned, 0 when it raised).                                            *)
(***************************************************************************)
\* The feeds and answers the whole-program specification draws from: every
\* outcome of a fetch (raises, no item, one item, two items) with fewer
\* combinations than SpecFetch explores.
SysFeeds ==
    {f \in Feeds : \A i \in DOMAIN f :
        \/ f[i].has = Fields
        \/ i = 1 /\ f[i].has = Fields \ {"published"}}

\* scheduled_job reads items only through `if items` and items[0]['link']: the
\* feeds it is given here have one entry at most.
JobFeeds == {f \in SysFeeds : Len(f) <= 1}

SysAnswers ==
    {a \in Answers : a.head = "redirect" /\ a.get.type = "resp"
                     /\ a.get.status = 200 /\ a.get.len = MinContentLen}

SysWebs == [1..MaxItems -> SysAnswers]

LlmOutcomes == {"ok", "raise"}
NotionOutcomes == {"ok", "raise"}

\* line 108: the text the model answers with
SummaryText(query) == "summary of " \o query

\* lines 93-108: the completion call is not inside any try
summarize_news(news_data, query, llm) ==
    IF llm = "raise" THEN [raised |-> TRUE, value |-> ""]
    ELSE [raised |-> FALSE, value |-> SummaryText(query)]

\* lines 113-121: the page pages.create is asked to create
Page(query, summary, link) ==
    [query |-> query, summary |-> summary, date |-> clock.day, link |-> link]

\* Fault: the except clause of line 124 lets the exception out.
save_to_notion_reraising(query, summary, link, outcome) ==
    IF outcome = "raise"
    THEN [raised |-> TRUE, value |-> FALSE, db |-> notion]
    ELSE [raised |-> FALSE, value |-> TRUE, db |-> Append(notion, Page(query, summary, link))]

\* lines 110-126: the database after the call, and the boolean returned
save_to_notion(query, summary, link, outcome) ==
    IF outcome = "raise"
    THEN [raised |-> FALSE, value |-> FALSE, db |-> notion]
    ELSE [raised |-> FALSE, value |-> TRUE, db |-> Append(notion, Page(query, summary, link))]

(***************************************************************************)
(* The script run of a session (lines 149-197).                            *)
(***************************************************************************)
\* A scheduler thread that has not run line 143 yet.
NewThread == [pc |-> "start", todo |-> <<>>, items |-> <<>>, summary |-> "", log |-> <<>>]

\* lines 150-153
StartsScheduler(s) == "scheduler_started" \notin session_state[s].keys

\* lines 150-153 and 164-165: what every script run does before the chat input
ScriptTop(s) ==
    [session_state EXCEPT ![s].keys = @ \cup {"scheduler_started", "messages"}]

Loaded(s) == "messages" \in session_state[s].keys

\* A browser opens the page: the first script run of a new session.
Load(s) ==
    /\ ~Loaded(s)
    /\ \A r \in 1..(s - 1) : Loaded(r)
    /\ session_state' = ScriptTop(s)
    /\ threads' = IF StartsScheduler(s) THEN Append(threads, NewThread) ELSE threads
    /\ UNCHANGED <<fetch, clock, chat, jobs, notion, turns>>

Greetings == {"annyeong", "bangawo"}                   \* line 180
GreetingReply == "annyeonghaseyo! mueoseul dowadeurilkkayo?"  \* line 181
NotFoundReply == "gwallyeon gisareul chatji mothaetgeona jeopgeuni jehandoeeotseumnida."  \* line 194

\* The chat inputs of the model: the two greetings, a query that only starts
\* like a greeting, and a topic.
Prompts == Greetings \cup {"annyeonghaseyo", "AI"}

\* Fault: the list of line 180 holds the first greeting only.
IsGreetingFirstOnly(prompt) == prompt = "annyeong"

\* line 180
IsGreeting(prompt) == prompt \in Greetings

\* lines 171-183: the script reruns with the submitted prompt
Submit(s, prompt) ==
    /\ Loaded(s)
    /\ chat[s].pc = "idle"
    /\ turns < MaxTurns
    /\ turns' = turns + 1
    /\ session_state' =
           [ScriptTop(s) EXCEPT ![s].messages =
               Append(@, [role |-> "user", content |-> prompt])]
    /\ threads' = IF StartsScheduler(s) THEN Append(threads, NewThread) ELSE threads
    /\ chat' = [chat EXCEPT ![s] =
           IF IsGreeting(prompt)
           THEN [IdleChat EXCEPT !.pc = "respond", !.prompt = prompt,
                                 !.full_response = GreetingReply]
           ELSE [IdleChat EXCEPT !.pc = "fetch", !.prompt = prompt]]
    /\ UNCHANGED <<fetch, clock, jobs, notion>>

\* Fault: line 186 does not test items.
AfterFetchNoShortCircuit(c, r) ==
    IF r.pc = "raised" THEN Uncaught("AttributeError")
    ELSE [c EXCEPT !.pc = "summarize", !.items = r.news_items, !.log = r.log]

\* lines 185-186 and 193-194; an exception ends the script run
AfterFetch(c, r) ==
    IF r.pc = "raised" THEN Uncaught("AttributeError")
    ELSE IF r.news_items # <<>>
    THEN [c EXCEPT !.pc = "summarize", !.items = r.news_items, !.log = r.log]
    ELSE [c EXCEPT !.pc = "respond", !.items = r.news_items, !.log = r.log,
                   !.full_response = NotFoundReply]

Fetch(s) ==
    /\ chat[s].pc = "fetch"
    /\ \E feed \in SysFeeds, web \in SysWebs :
           chat' = [chat EXCEPT ![s] = AfterFetch(@, fetch_google_news(feed, web))]
    /\ UNCHANGED <<fetch, clock, session_state, threads, jobs, notion, turns>>

\* Fault: an exception of summarize_news is swallowed and the run goes on.
AfterSummarizeSwallowed(c, r) ==
    IF r.raised THEN [c EXCEPT !.pc = "save"]
    ELSE [c EXCEPT !.pc = "save", !.summary = r.value, !.log = Append(@, <<"llm", 1>>)]

\* line 187; an exception ends the script run
AfterSummarize(c, r) ==
    IF r.raised THEN Uncaught("OpenAIError")
    ELSE [c EXCEPT !.pc = "save", !.summary = r.value, !.log = Append(@, <<"llm", 1>>)]

Summarize(s) ==
    /\ chat[s].pc = "summarize"
    /\ \E llm \in LlmOutcomes :
           chat' = [chat EXCEPT ![s] =
               AfterSummarize(@, summarize_news(@.items, @.prompt, llm))]
    /\ UNCHANGED <<fetch, clock, session_state, threads, jobs, notion, turns>>

\* lines 190-192
RECURSIVE Sources(_)
Sources(items) ==
    IF items = <<>> THEN ""
    ELSE "\n- [" \o Head(items).title \o "](" \o Head(items).link \o ")"
         \o Sources(Tail(items))

Format(prompt, summary, items) ==
    "**['" \o prompt \o "' simcheung yoyak]**\n\n" \o summary \o "\n\n**chulcheo:**"
    \o Sources(items)

\* lines 188-192: the boolean save_to_notion returns is dropped
AfterSave(c, r) ==
    IF r.raised THEN Uncaught("NotionError")
    ELSE [c EXCEPT !.pc = "respond",
                   !.log = Append(@, <<"notion", IF r.value THEN 1 ELSE 0>>),
                   !.full_response = Format(c.prompt, c.summary, c.items)]

Save(s) ==
    /\ chat[s].pc = "save"
    /\ Len(notion) < MaxPages
    /\ \E outcome \in NotionOutcomes :
           LET r == save_to_notion(chat[s].prompt, chat[s].summary,
                                   chat[s].items[1].link, outcome) IN
           /\ notion' = r.db
           /\ chat' = [chat EXCEPT ![s] = AfterSave(@, r)]
    /\ UNCHANGED <<fetch, clock, session_state, threads, jobs, turns>>

\* lines 196-197: the end of the script run
Respond(s) ==
    /\ chat[s].pc = "respond"
    /\ session_state' = [session_state EXCEPT ![s].messages =
           Append(@, [role |-> "assistant", content |-> chat[s].full_response])]
    /\ chat' = [chat EXCEPT ![s] = IdleChat]
    /\ UNCHANGED <<fetch, clock, threads, jobs, notion, turns>>

(***************************************************************************)
(* The scheduler (lines 128-147).  schedule keeps one process-wide list of *)
(* jobs; a job has next_run (here the day whose 09:00 it is) and last_run  *)
(* (-1 before the first run).                                              *)
(***************************************************************************)
target_keyword == "choesin AI gisul"        \* line 133
\* Fault: line 137 passes the keyword without the tag.
AutoQueryUntagged == target_keyword
AutoQuery == "[jadong] " \o target_keyword  \* line 137

\* The next 09:00 that is not in the past.
Next0900 == IF clock.past9 THEN clock.day + 1 ELSE clock.day

\* line 143: schedule.every().day.at("09:00").do(scheduled_job)
Register(t) ==
    /\ threads[t].pc = "start"
    /\ jobs' = Append(jobs, [next_run |-> Next0900, last_run |-> -1])
    /\ threads' = [threads EXCEPT ![t].pc = "loop"]
    /\ UNCHANGED <<fetch, clock, session_state, chat, notion, turns>>

\* Job.should_run: the job's 09:00 has come
ShouldRun(j) ==
    \/ jobs[j].next_run < clock.day
    \/ jobs[j].next_run = clock.day /\ clock.past9

Before(j, k) ==
    \/ jobs[j].next_run < jobs[k].next_run
    \/ jobs[j].next_run = jobs[k].next_run /\ j < k

\* sorted(runnable_jobs): by next_run, jobs of one next_run in list order
RECURSIVE Sorted(_)
Sorted(S) ==
    IF S = {} THEN <<>>
    ELSE LET j == CHOOSE j \in S : \A k \in S \ {j} : Before(j, k)
         IN <<j>> \o Sorted(S \ {j})

\* line 146: run_pending lists the jobs that are due and runs them in turn
\* (a pass that finds none due sleeps and changes nothing)
RunPending(t) ==
    /\ threads[t].pc = "loop"
    /\ LET due == {j \in DOMAIN jobs : ShouldRun(j)} IN
       /\ due # {}
       /\ threads' = [threads EXCEPT ![t].pc = "job_fetch", ![t].todo = Sorted(due)]
    /\ UNCHANGED <<fetch, clock, session_state, chat, jobs, notion, turns>>

\* Job.run after job_func returns: last_run = now, the next run is scheduled,
\* and run_pending goes on to the next job it listed
Finished(th) ==
    [pc |-> IF Len(th.todo) > 1 THEN "job_fetch" ELSE "loop",
     todo |-> Tail(th.todo), items |-> <<>>, summary |-> "", log |-> <<>>]

JobsAfterRun(th) ==
    [jobs EXCEPT ![Head(th.todo)] = [next_run |-> Next0900, last_run |-> clock.day]]

\* An exception leaves scheduled_job, run_pending and start_scheduler: the
\* thread ends.
Dead == [pc |-> "dead", todo |-> <<>>, items |-> <<>>, summary |-> "", log |-> <<>>]

\* lines 134-135
JobAfterFetch(th, r) ==
    IF r.pc = "raised" THEN Dead
    ELSE IF r.news_items # <<>>
    THEN [th EXCEPT !.pc = "job_summarize", !.items = r.news_items, !.log = r.log]
    ELSE Finished(th)

JobFetch(t) ==
    /\ threads[t].pc = "job_fetch"
    /\ \E feed \in JobFeeds, web \in SysWebs :
           LET r == fetch_google_news(feed, web) IN
           /\ threads' = [threads EXCEPT ![t] = JobAfterFetch(@, r)]
           /\ jobs' = IF threads'[t].pc \in {"job_summarize", "dead"}
                      THEN jobs ELSE JobsAfterRun(threads[t])
    /\ UNCHANGED <<fetch, clock, session_state, chat, notion, turns>>

\* line 136
JobAfterSummarize(th, r) ==
    IF r.raised THEN Dead
    ELSE [th EXCEPT !.pc = "job_save", !.summary = r.value,
                    !.log = Append(@, <<"llm", 1>>)]

JobSummarize(t) ==
    /\ threads[t].pc = "job_summarize"
    /\ \E llm \in LlmOutcomes :
           threads' = [threads EXCEPT ![t] =
               JobAfterSummarize(@, summarize_news(@.items, target_keyword, llm))]
    /\ UNCHANGED <<fetch, clock, session_state, chat, jobs, notion, turns>>

\* lines 137-138
JobAfterSave(th, r) == IF r.raised THEN Dead ELSE Finished(th)

JobSave(t) ==
    /\ threads[t].pc = "job_save"
    /\ Len(notion) < MaxPages
    /\ \E outcome \in NotionOutcomes :
           LET r == save_to_notion(AutoQuery, threads[t].summary,
                                   threads[t].items[1].link, outcome) IN
           /\ notion' = r.db
           /\ threads' = [threads EXCEPT ![t] = JobAfterSave(@, r)]
           /\ jobs' = IF r.raised THEN jobs ELSE JobsAfterRun(threads[t])
    /\ UNCHANGED <<fetch, clock, session_state, chat, turns>>

\* 09:00 of the day comes.
Nine ==
    /\ ~clock.past9
    /\ clock' = [clock EXCEPT !.past9 = TRUE]
    /\ UNCHANGED <<fetch, session_state, chat, threads, jobs, notion, turns>>

\* A scheduler thread that has nothing left to do today: it has ended, or it
\* is in the loop of lines 145-147 and no job is due.
Sleeping(t) ==
    \/ threads[t].pc = "dead"
    \/ threads[t].pc = "loop" /\ \A j \in DOMAIN jobs : ~ShouldRun(j)

\* Midnight.  The loop polls every second and a run takes minutes, so the
\* model lets the day end only once every scheduler thread has nothing left
\* to do.
Midnight ==
    /\ clock.past9
    /\ clock.day < MaxDays
    /\ \A t \in DOMAIN threads : Sleeping(t)
    /\ clock' = [day |-> clock.day + 1, past9 |-> FALSE]
    /\ UNCHANGED <<fetch, session_state, chat, threads, jobs, notion, turns>>

\* The interactive context alone: sessions load the script and chat.
NextChat ==
    \/ \E s \in Sessions : Load(s)
    \/ \E s \in Sessions, prompt \in Prompts : Submit(s, prompt)
    \/ \E s \in Sessions : Fetch(s)
    \/ \E s \in Sessions : Summarize(s)
    \/ \E s \in Sessions : Save(s)
    \/ \E s \in Sessions : Respond(s)

SpecChat == Init /\ [][NextChat]_vars

\* The background context alone: sessions load the script, which starts
\* scheduler threads, and time passes.
NextSched ==
    \/ \E s \in Sessions : Load(s)
    \/ \E t \in DOMAIN threads : Register(t)
    \/ \E t \in DOMAIN threads : RunPending(t)
    \/ \E t \in DOMAIN threads : JobFetch(t)
    \/ \E t \in DOMAIN threads : JobSummarize(t)
    \/ \E t \in DOMAIN threads : JobSave(t)
    \/ Nine
    \/ Midnight

SpecSched == Init /\ [][NextSched]_vars

\* The whole program.
Next == NextChat \/ NextSched

Spec == Init /\ [][Next]_vars

(***************************************************************************)
(* Properties.                                                             *)
(***************************************************************************)
Last(q) == q[Len(q)]

\* The requests of a fetch that handled n entries: the feed, then for each
\* entry in feed order its redirect resolution and then its scrape.
FetchLog(n) ==
    <<<<"feed", 0>>>> \o
    [k \in 1..(2 * n) |-> IF k % 2 = 1 THEN <<"head", (k + 1) \div 2>>
                                      ELSE <<"get", k \div 2>>]

IsPrefix(a, b) == Len(a) <= Len(b) /\ SubSeq(b, 1, Len(a)) = a

\* A frame whose stages so far happened in the order fetch, summarize, save.
InOrder(fr, query, summarizing, saving) ==
    /\ fr.pc = summarizing =>
           fr.items # <<>> /\ fr.log = FetchLog(Len(fr.items))
    /\ fr.pc = saving =>
           /\ fr.summary = SummaryText(query)
           /\ fr.log = Append(FetchLog(Len(fr.items)), <<"llm", 1>>)
    /\ \A k \in DOMAIN fr.log :
           /\ fr.log[k][1] = "llm" =>
                  fr.items # <<>> /\ SubSeq(fr.log, 1, k - 1) = FetchLog(Len(fr.items))
           /\ fr.log[k][1] = "notion" => k > 1 /\ fr.log[k - 1] = <<"llm", 1>>

C1_Inv ==
    /\ \A s \in Sessions : InOrder(chat[s], chat[s].prompt, "summarize", "save")
    /\ \A t \in DOMAIN threads : InOrder(threads[t], target_keyword, "job_summarize", "job_save")

C1_Step ==
    /\ notion' # notion =>
           \/ \E s \in Sessions :
                  chat[s].pc = "save" /\ chat'[s] # chat[s] /\ Last(chat[s].log) = <<"llm", 1>>
           \/ \E t \in DOMAIN threads :
                  /\ threads[t].pc = "job_save" /\ threads'[t] # threads[t]
                  /\ Last(threads[t].log) = <<"llm", 1>>
    /\ \A s \in Sessions :
           chat[s].pc = "summarize" /\ chat'[s].pc \notin {"summarize", "save"} =>
               notion' = notion
    /\ \A t \in DOMAIN threads :
           threads[t].pc = "job_summarize"
           /\ threads'[t].pc \notin {"job_summarize", "job_save"} => notion' = notion

\* C1: in every run of the chat pipeline (non-greeting query) and of the
\* scheduled job the stages happen in the order fetch, summarize, archive write:
\* the model call is made only after the fetch of that run has returned (all its
\* requests precede it), a page is created only by a run whose model call has
\* returned a summary, and a run whose model call fails creates no page.
C1_StagesInOrder == []C1_Inv /\ [][C1_Step]_vars

\* Both pipelines have run to the end: the database holds a page written by a
\* chat turn and one written by the scheduled job.
C1_Witness ==
    \E i, j \in DOMAIN notion :
        notion[i].query = AutoQuery /\ notion[j].query \in Prompts

\* C2: the scheduler is started at most once per process: at most one
\* scheduler thread exists and at most one daily job is registered.
C2_SchedulerStartedOnce == Len(threads) <= 1 /\ Len(jobs) <= 1

AutoPages(d) ==
    {i \in DOMAIN notion : notion[i].query = "[jadong] choesin AI gisul" /\ notion[i].date = d}

\* A day on which the daily job has run, and whose runs are over.
JobRanOn(d) ==
    /\ \E j \in DOMAIN jobs : jobs[j].last_run = d
    /\ \A t \in DOMAIN threads : Sleeping(t)
    /\ clock.day > d \/ (clock.day = d /\ clock.past9)

\* C3 as claimed: every day on which the process is running at 09:00 (here:
\* and on which the daily job has run) gets exactly one page of the scheduled
\* job.
C3_OnePagePerDay ==
    \A d \in 0..MaxDays : JobRanOn(d) => Cardinality(AutoPages(d)) = 1

C3_Step ==
    \A t \in DOMAIN threads :
        threads'[t] # threads[t] =>
            /\ notion' # notion =>
                   /\ threads[t].pc = "job_save"
                   /\ notion' = Append(notion,
                          [query |-> "[jadong] choesin AI gisul",
                           summary |-> threads[t].summary,
                           date |-> clock.day,
                           link |-> threads[t].items[1].link])
            /\ threads[t].pc = "job_save" =>
                   /\ threads'[t].pc \in {"loop", "job_fetch"}
                   /\ threads'[t].todo = Tail(threads[t].todo)
                   /\ jobs'[Head(threads[t].todo)].last_run = clock.day
            /\ threads[t].pc \in {"job_fetch", "job_summarize"}
               /\ threads'[t].pc \in {"loop", "job_fetch", "dead"} => notion' = notion

\* C3 as amended: each run of the scheduled job creates at most one page (the
\* run ends with its one save_to_notion call), none when the fetch returns no
\* item or raises or the model call raises, and every page it creates has the
\* query "[jadong] choesin AI gisul" and the link of the first item.
C3_OnePagePerRun == [][C3_Step]_vars

\* The scheduled job has written a page and its run is over.
C3_Witness ==
    /\ \E i \in DOMAIN notion : notion[i].query = "[jadong] choesin AI gisul"
    /\ \E j \in DOMAIN jobs : jobs[j].last_run = clock.day
    /\ \A t \in DOMAIN threads : Sleeping(t)

Alternates(messages) ==
    /\ Len(messages) % 2 = 0
    /\ \A k \in DOMAIN messages :
           messages[k].role = IF k % 2 = 1 THEN "user" ELSE "assistant"

\* C4: once a submitted query has been handled (greeting, empty fetch, summary,
\* archive failure or model-call failure: every end of the script run but an
\* exception out of the fetch), the history holds exactly one assistant message
\* after every user message.
C4_OneAssistantTurnPerUserTurn ==
    \A s \in Sessions :
        chat[s].pc = "idle" /\ chat[s].exception # "AttributeError" =>
            Alternates(session_state[s].messages)

C5_Inv ==
    /\ \A s \in Sessions :
           /\ chat[s].pc \in {"summarize", "save"} => chat[s].items # <<>>
           /\ chat[s].pc = "respond" /\ ~IsGreeting(chat[s].prompt) /\ chat[s].items = <<>> =>
                  /\ chat[s].full_response = NotFoundReply
                  /\ chat[s].log = <<<<"feed", 0>>>>
    /\ \A t \in DOMAIN threads :
           threads[t].pc \in {"job_summarize", "job_save"} => threads[t].items # <<>>

C5_Step ==
    /\ \A s \in Sessions :
           chat[s].pc = "respond" /\ chat[s].items = <<>> /\ chat'[s] # chat[s] =>
               /\ notion' = notion
               /\ session_state'[s].messages =
                      Append(session_state[s].messages,
                             [role |-> "assistant", content |-> chat[s].full_response])
    /\ \A t \in DOMAIN threads :
           threads[t].pc = "job_fetch" /\ threads'[t] # threads[t]
           /\ threads'[t].pc # "job_summarize" => notion' = notion

\* C5: when the fetch returns no item the pipeline short-circuits: the model
\* is never called with an empty list, no page is created, and the chat answer
\* is the fixed not-found message; the scheduled job then makes no model call
\* and creates no page either.
C5_EmptyFetchShortCircuits == []C5_Inv /\ [][C5_Step]_vars

\* A chat turn whose fetch returned nothing is about to answer, and the
\* scheduled job has run without leaving a page.
C5_Witness ==
    /\ \E s \in Sessions :
           /\ chat[s].pc = "respond" /\ chat[s].prompt = "AI"
           /\ chat[s].items = <<>> /\ chat[s].full_response = NotFoundReply
    /\ \E j \in DOMAIN jobs : jobs[j].last_run = 0
    /\ notion = <<>>

\* C6: fetch_google_news never raises, whatever the feed entries lack and
\* whatever the requests answer: every item it builds has the entry's title, the
\* entry's own link or the resolved one, and text or a failure marker as content.
C6_FetcherNeverRaises ==
    /\ fetch.pc # "raised"
    /\ \A k \in DOMAIN fetch.news_items :
           /\ fetch.news_items[k].title = Title(fetch.feed[k])
           /\ fetch.news_items[k].link \in {RssLink(fetch.feed[k]), RealLink(fetch.feed[k])}
           /\ fetch.news_items[k].content.kind \in {"text", "restricted", "nocontent", "error"}

\* C7: crawl_article never returns more than 3000 characters on any path, so
\* no item's content is longer than that.
C7_ContentAtMost3000 ==
    \A k \in DOMAIN fetch.news_items : fetch.news_items[k].content.len <= 3000

C8_Inv ==
    \A s \in Sessions :
        chat[s].pc = "respond" /\ (\E k \in DOMAIN chat[s].log : chat[s].log[k][1] = "notion") =>
            chat[s].full_response = Format(chat[s].prompt, chat[s].summary, chat[s].items)

C8_Step ==
    \A s \in Sessions :
        /\ chat[s].pc = "save" /\ chat'[s] # chat[s] =>
               /\ chat'[s].pc = "respond"
               /\ chat'[s].exception = ""
               /\ chat'[s].full_response =
                      Format(chat[s].prompt, chat[s].summary, chat[s].items)
        /\ chat[s].pc = "respond" /\ chat'[s] # chat[s] =>
               /\ chat'[s].pc = "idle"
               /\ session_state'[s].messages =
                      Append(session_state[s].messages,
                             [role |-> "assistant", content |-> chat[s].full_response])

\* C8: a failed archive write never interrupts the chat turn: save_to_notion
\* returns without raising, and the turn goes on to the same formatted answer
\* (summary and source list) and the same history update as after a write that
\* succeeded.
C8_ArchiveFailureIsSilent == []C8_Inv /\ [][C8_Step]_vars

\* A turn whose archive write failed is about to answer, with the formatted
\* summary.
C8_Witness ==
    \E s \in Sessions :
        /\ chat[s].pc = "respond"
        /\ chat[s].log # <<>>
        /\ Last(chat[s].log) = <<"notion", 0>>
        /\ notion = <<>>
        /\ chat[s].full_response = Format(chat[s].prompt, chat[s].summary, chat[s].items)

\* C9: fetch_google_news returns at most 2 items whatever the feed's size and
\* no item for an empty feed, and handles the entries one after another in feed
\* order: for each, one redirect resolution and then one scrape, the requests of
\* an entry all sent before those of the next.
C9_AtMostTwoItemsInFeedOrder ==
    /\ Len(fetch.news_items) <= 2
    /\ fetch.pc # "idle" => IsPrefix(fetch.log, FetchLog(2))
    /\ fetch.pc = "return" =>
           /\ Len(fetch.news_items) = Min(Len(fetch.feed), 2)
           /\ fetch.log = FetchLog(Len(fetch.news_items))
           /\ \A k \in DOMAIN fetch.news_items :
                  fetch.news_items[k].title = Title(fetch.feed[k])
    /\ fetch.pc = "return" /\ fetch.feed = <<>> =>
           fetch.news_items = <<>> /\ fetch.log = <<<<"feed", 0>>>>

\* The fetch of a feed of more than 2 entries has returned 2 items.
C9_Witness ==
    fetch.pc = "return" /\ Len(fetch.feed) > 2 /\ Len(fetch.news_items) = 2

C10_Inv ==
    \A s \in Sessions :
        chat[s].prompt \in {"annyeong", "bangawo"} =>
            /\ chat[s].pc = "respond"
            /\ chat[s].full_response = "annyeonghaseyo! mueoseul dowadeurilkkayo?"
            /\ chat[s].log = <<>>
            /\ chat[s].items = <<>>

C10_Step ==
    \A s \in Sessions :
        chat[s].prompt \in {"annyeong", "bangawo"} /\ chat'[s] # chat[s] =>
            /\ notion' = notion
            /\ chat'[s].pc = "idle"
            /\ chat'[s].exception = ""
            /\ session_state'[s].messages =
                   Append(session_state[s].messages,
                          [role |-> "assistant",
                           content |-> "annyeonghaseyo! mueoseul dowadeurilkkayo?"])

\* C10: a query that is exactly one of the greetings is answered with the
\* canned greeting and no network call at all: no feed request, no redirect
\* resolution, no scrape, no model call and no archive write in that turn.
C10_GreetingMakesNoCall == []C10_Inv /\ [][C10_Step]_vars

\* The second greeting has been submitted and is about to be answered.
C10_Witness ==
    \E s \in Sessions :
        /\ chat[s].pc = "respond" /\ chat[s].prompt = "bangawo"
        /\ Last(session_state[s].messages) = [role |-> "user", content |-> "bangawo"]

====
